---- MODULE Spec2Model ----
(***************************************************************************)
(* The nboost proxy: the request pipeline of Proxy.__init__ (track and the *)
(* four route callbacks) run by the aiohttp server of BaseServer (run,     *)
(* middleware, per-path counters) and the start()/close() lifecycle.       *)
(*                                                                         *)
(* One request is one coroutine.  The event loop is single threaded, so a  *)
(* coroutine runs without interruption from one suspension to the next;    *)
(* the suspensions of a request are the awaits of its tracked steps.  An   *)
(* action of the model is therefore one such uninterrupted stretch.        *)
(***************************************************************************)
EXTENDS Integers, Sequences, FiniteSets, TLC

\* ------------------------------------------------------------- bounds
MaxReqs == 2        \* requests issued in one run
MaxFaults == 1      \* component calls (or lap calls) that raise in one run
MaxLatency == 2     \* time.time() - start of one request, in ticks
MaxElapsed == 1     \* perf_counter() difference of one tracked call, in ticks

Reqs == 1..MaxReqs
Latencies == 1..MaxLatency
Elapsed == 1..MaxElapsed

RECURSIVE Factorial(_)
Factorial(n) == IF n <= 1 THEN 1 ELSE n * Factorial(n - 1)
\* Latencies are kept in units of 1/Scale tick, so that every division by a
\* request count n <= MaxReqs that running_avg performs is exact.
Scale == Factorial(MaxReqs)

\* ------------------------------------------------------------- paths
SEARCH == "codex.SEARCH"
TRAIN == "codex.TRAIN"
STATUS == "codex.STATUS"
status_path == "/status"
OtherPath == "/foo"
CodexPaths == {SEARCH, TRAIN, STATUS}
RegisteredPaths == CodexPaths \cup {status_path}
Paths == RegisteredPaths \cup {OtherPath}

\* ------------------------------------------------------------- values
\* Every value that flows through a route is a record of one shape.  arity > 0
\* marks a tuple result (parse, save, pluck, get); err names the exception a
\* fallback Response was built from.
Val(k, r, i, a, e) == [kind |-> k, req |-> r, idx |-> i, arity |-> a, err |-> e]
Nil == Val("nil", 0, 0, 0, "none")
RequestOf(r) == Val("request", r, 0, 0, "none")
EmptyDict == Val("{}", 0, 0, 0, "none")

\* Exceptions: cls is the Python class, declined says whether codex.catch
\* re-raises it instead of answering it.
Exc(c, d) == [cls |-> c, declined |-> d]
NoExc == Exc("none", FALSE)
ComponentExcs == {Exc("Exception", FALSE), Exc("Exception", TRUE)}
TypeErrors == {Exc("TypeError", FALSE), Exc("TypeError", TRUE)}

\* The outcome of a call: it returned ret, or it raised exc.
OkOut(v) == [raised |-> FALSE, exc |-> NoExc, ret |-> v]
RaiseOut(e) == [raised |-> TRUE, exc |-> e, ret |-> Nil]
LapOutcomes == {OkOut(Nil)} \cup {RaiseOut(e) : e \in ComponentExcs}

\* ------------------------------------------------------------- components
\* The number of items of the tuple a component operation returns (0: a
\* single value).
ResultArity(name) ==
    CASE name = "parse" -> 2
      [] name = "save" -> 2
      [] name = "pluck" -> 2
      [] name = "get" -> 3
      [] OTHER -> 0

\* What operation `name` returns to request r when it does not raise.
Result(name, r) == Val(name, r, 0, ResultArity(name), "none")

\* codex.catch(e): the fallback Response for e, or e raised again.
FallbackOf(e, r) == Val("fallback", r, 0, 0, e.cls)
catch(e, r) == IF e.declined THEN RaiseOut(e) ELSE OkOut(FallbackOf(e, r))

\* *v at a call site: the items of a tuple; a Response is not iterable.
CanUnpack(v) == v.arity > 0
Star(v) == [i \in 1..v.arity |-> Val(v.kind, v.req, i, 0, v.err)]

\* ------------------------------------------------------------- track
\* A callable handed to track: a bound method of a component (self names the
\* component) or a plain function defined in Proxy.__init__ (self = "none").
Fn(obj, name) == [self |-> obj, name |-> name]

ClassName(obj) ==
    CASE obj = "codex" -> "Codex"
      [] obj = "server" -> "Server"
      [] obj = "model" -> "Model"
      [] obj = "db" -> "Db"
      [] OTHER -> "Proxy"

\* track, lines 61-66: ident is the class of the object that owns f, or the
\* Proxy's class for a function that has no __self__, and f's name.
ident(f) == <<IF f.self # "none" THEN ClassName(f.self) ELSE "Proxy", f.name>>

\* track.decorator, lines 68-78.  fOut is what f(*args), awaited if
\* awaitable, came to; lapOut is what db.lap came to (called only when f
\* returned); d is the perf_counter difference.  The result is what the
\* decorator returns or raises, the lap calls that completed (their arguments)
\* and the exceptions handed to logger.error and codex.catch.
\* Mutants of decorator: one lets the exception of f through, one returns
\* without recording the lap.
decorator_propagates(f, r, fOut, lapOut, d) ==
    IF fOut.raised
    THEN [out |-> RaiseOut(fOut.exc), laps |-> <<>>, caught |-> <<>>]
    ELSE IF lapOut.raised
    THEN [out |-> catch(lapOut.exc, r), laps |-> <<>>, caught |-> <<lapOut.exc>>]
    ELSE [out |-> OkOut(fOut.ret),
          laps |-> << <<d * 1000, ident(f)[1], ident(f)[2]>> >>,
          caught |-> <<>>]

decorator_droplap(f, r, fOut, lapOut, d) ==
    IF fOut.raised
    THEN [out |-> catch(fOut.exc, r), laps |-> <<>>, caught |-> <<fOut.exc>>]
    ELSE [out |-> OkOut(fOut.ret), laps |-> <<>>, caught |-> <<>>]

\* Mutant of decorator: the result of codex.catch is not bound to ret, so the
\* return statement raises.
decorator_unbound(f, r, fOut, lapOut, d) ==
    IF fOut.raised
    THEN [out |-> RaiseOut(Exc("UnboundLocalError", TRUE)), laps |-> <<>>,
          caught |-> <<fOut.exc>>]
    ELSE IF lapOut.raised
    THEN [out |-> RaiseOut(Exc("UnboundLocalError", TRUE)), laps |-> <<>>,
          caught |-> <<lapOut.exc>>]
    ELSE [out |-> OkOut(fOut.ret),
          laps |-> << <<d * 1000, ident(f)[1], ident(f)[2]>> >>,
          caught |-> <<>>]

\* Mutant of decorator: db.lap is called after the try statement, so its
\* exception is not caught.
decorator_lapoutside(f, r, fOut, lapOut, d) ==
    IF fOut.raised
    THEN [out |-> catch(fOut.exc, r), laps |-> <<>>, caught |-> <<fOut.exc>>]
    ELSE IF lapOut.raised
    THEN [out |-> RaiseOut(lapOut.exc), laps |-> <<>>, caught |-> <<>>]
    ELSE [out |-> OkOut(fOut.ret),
          laps |-> << <<d * 1000, ident(f)[1], ident(f)[2]>> >>,
          caught |-> <<>>]

decorator(f, r, fOut, lapOut, d) ==
    IF fOut.raised
    THEN [out |-> catch(fOut.exc, r), laps |-> <<>>, caught |-> <<fOut.exc>>]
    ELSE IF lapOut.raised
    THEN [out |-> catch(lapOut.exc, r), laps |-> <<>>, caught |-> <<lapOut.exc>>]
    ELSE [out |-> OkOut(fOut.ret),
          laps |-> << <<d * 1000, ident(f)[1], ident(f)[2]>> >>,
          caught |-> <<>>]

\* ------------------------------------------------------------- routes
\* One argument of a call: a local variable of the route, starred or not.
A(v) == [var |-> v, star |-> FALSE]
S(v) == [var |-> v, star |-> TRUE]
\* One statement of a route body: dst = [await track](f)(args).
Stmt(obj, name, args, dst, tracked) ==
    [f |-> Fn(obj, name), args |-> args, dst |-> dst, tracked |-> tracked]

\* Mutant of search: save runs before rank.
search_swapped ==
    << Stmt("codex", "topk", <<A("_1")>>, "_2", TRUE),
       Stmt("codex", "magnify", <<A("_1"), A("_2")>>, "_3", TRUE),
       Stmt("server", "ask", <<A("_3")>>, "_4", TRUE),
       Stmt("codex", "parse", <<A("_3"), A("_4")>>, "_5", TRUE),
       Stmt("db", "save", <<S("_5")>>, "_7", TRUE),
       Stmt("model", "rank", <<S("_5")>>, "_6", TRUE),
       Stmt("codex", "pack",
            <<A("_2"), A("_4"), S("_5"), A("_6"), S("_7")>>, "_8", TRUE) >>

\* Mutant of search: the choices are not saved; pack is handed the parsed
\* pair in the place of save's (Qid, Cids).
search_unsaved ==
    << Stmt("codex", "topk", <<A("_1")>>, "_2", TRUE),
       Stmt("codex", "magnify", <<A("_1"), A("_2")>>, "_3", TRUE),
       Stmt("server", "ask", <<A("_3")>>, "_4", TRUE),
       Stmt("codex", "parse", <<A("_3"), A("_4")>>, "_5", TRUE),
       Stmt("model", "rank", <<S("_5")>>, "_6", TRUE),
       Stmt("codex", "pack",
            <<A("_2"), A("_4"), S("_5"), A("_6"), S("_5")>>, "_8", TRUE) >>

search ==
    << Stmt("codex", "topk", <<A("_1")>>, "_2", TRUE),
       Stmt("codex", "magnify", <<A("_1"), A("_2")>>, "_3", TRUE),
       Stmt("server", "ask", <<A("_3")>>, "_4", TRUE),
       Stmt("codex", "parse", <<A("_3"), A("_4")>>, "_5", TRUE),
       Stmt("model", "rank", <<S("_5")>>, "_6", TRUE),
       Stmt("db", "save", <<S("_5")>>, "_7", TRUE),
       Stmt("codex", "pack",
            <<A("_2"), A("_4"), S("_5"), A("_6"), S("_7")>>, "_8", TRUE) >>

\* Mutants of train: model.train called without track, and model.train
\* handed _3 whole instead of its items.
train_untracked ==
    << Stmt("codex", "pluck", <<A("_1")>>, "_2", TRUE),
       Stmt("db", "get", <<S("_2")>>, "_3", TRUE),
       Stmt("model", "train", <<S("_3")>>, "none", FALSE),
       Stmt("codex", "ack", <<S("_2")>>, "_4", TRUE) >>

train_nostar ==
    << Stmt("codex", "pluck", <<A("_1")>>, "_2", TRUE),
       Stmt("db", "get", <<S("_2")>>, "_3", TRUE),
       Stmt("model", "train", <<A("_3")>>, "none", TRUE),
       Stmt("codex", "ack", <<S("_2")>>, "_4", TRUE) >>

train ==
    << Stmt("codex", "pluck", <<A("_1")>>, "_2", TRUE),
       Stmt("db", "get", <<S("_2")>>, "_3", TRUE),
       Stmt("model", "train", <<S("_3")>>, "none", TRUE),
       Stmt("codex", "ack", <<S("_2")>>, "_4", TRUE) >>

status ==
    << Stmt("server", "chain_state", <<A("{}")>>, "_2", FALSE),
       Stmt("codex", "chain_state", <<A("_2")>>, "_3", FALSE),
       Stmt("model", "chain_state", <<A("_3")>>, "_4", FALSE),
       Stmt("db", "chain_state", <<A("_4")>>, "_5", FALSE),
       Stmt("codex", "pulse", <<A("_5")>>, "_6", FALSE) >>

not_found ==
    << Stmt("server", "forward", <<A("_1")>>, "_2", TRUE) >>

ProxyRoutes == {"search", "train", "status", "not_found"}

Body(route) ==
    CASE route = "search" -> search
      [] route = "train" -> train
      [] route = "status" -> status
      [] route = "not_found" -> not_found
      [] OTHER -> <<>>

\* The variable a route returns.
RetVar(route) ==
    CASE route = "search" -> "_8"
      [] route = "train" -> "_4"
      [] route = "status" -> "_6"
      [] OTHER -> "_2"

Locals == {"_1", "_2", "_3", "_4", "_5", "_6", "_7", "_8", "{}", "none"}
NewEnv(r) == [v \in Locals |->
                 IF v = "_1" THEN RequestOf(r)
                 ELSE IF v = "{}" THEN EmptyDict ELSE Nil]

\* The argument list of a call, stars expanded.
RECURSIVE Args(_, _)
Args(specs, ev) ==
    IF specs = <<>> THEN <<>>
    ELSE (IF Head(specs).star THEN Star(ev[Head(specs).var])
          ELSE <<ev[Head(specs).var]>>) \o Args(Tail(specs), ev)

\* Whether every starred argument of a call can be unpacked.
ArgsOk(specs, ev) ==
    \A i \in 1..Len(specs) : specs[i].star => CanUnpack(ev[specs[i].var])

CallOf(st, ev) ==
    [cls |-> ident(st.f)[1], op |-> st.f.name, args |-> Args(st.args, ev),
     tracked |-> st.tracked]

\* A route body run from statement k until it suspends in a tracked call,
\* returns, or raises.  te is the TypeError a failing *unpack raises; the
\* direct (untracked) call number failAt raises fe, any other returns.
RECURSIVE Run(_, _, _, _, _, _, _, _)
Run(route, k, r, ev, cl, te, failAt, fe) ==
    IF k > Len(Body(route))
    THEN [kind |-> "return", out |-> OkOut(ev[RetVar(route)]), pc |-> k,
          env |-> ev, calls |-> cl]
    ELSE LET st == Body(route)[k] IN
         IF ~ArgsOk(st.args, ev)
         THEN [kind |-> "return", out |-> RaiseOut(te), pc |-> k,
               env |-> ev, calls |-> cl]
         ELSE IF st.tracked
         THEN [kind |-> "await", out |-> OkOut(Nil), pc |-> k,
               env |-> ev, calls |-> Append(cl, CallOf(st, ev))]
         ELSE IF failAt = k
         THEN [kind |-> "return", out |-> RaiseOut(fe), pc |-> k,
               env |-> ev, calls |-> Append(cl, CallOf(st, ev))]
         ELSE Run(route, k + 1, r,
                  [ev EXCEPT ![st.dst] = Result(st.f.name, r)],
                  Append(cl, CallOf(st, ev)), te, failAt, fe)

\* ------------------------------------------------------------- server
\* handler.routes: per path, the route's counters.  A RouteState has the
\* keys 'reqs' and 'lat'; IntZero is the int 0 that setdefault stores.
RouteState(n, avg) == [kind |-> "RouteState", reqs |-> n, lat |-> avg]
IntZero == [kind |-> "int", reqs |-> 0, lat |-> 0]
Missing == [kind |-> "missing", reqs |-> 0, lat |-> 0]

\* handler.routes after the routes were added: an entry per added route.
InitRoutes == [p \in Paths |->
                  IF p \in RegisteredPaths THEN RouteState(0, 0) ELSE Missing]

running_avg(avg, new, n) == (avg * n + new) \div n

\* dict.setdefault(path, 0), line 73.
setdefault(rts, p) ==
    IF rts[p].kind = "missing" THEN [rts EXCEPT ![p] = IntZero] ELSE rts

\* middleware, lines 73-74: the entry is created if missing, then its 'reqs'
\* is incremented; subscripting an int raises TypeError.
middleware_enter(rts, p) ==
    LET d == setdefault(rts, p) IN
    IF d[p].kind = "RouteState"
    THEN [raised |-> FALSE, exc |-> NoExc,
          routes |-> [d EXCEPT ![p].reqs = @ + 1]]
    ELSE [raised |-> TRUE, exc |-> Exc("TypeError", TRUE), routes |-> d]

\* The handler aiohttp resolves for a path: a route callback of the Proxy,
\* the server's own status method, or the one that raises HTTPNotFound.
Match(p) ==
    CASE p = SEARCH -> "search"
      [] p = TRAIN -> "train"
      [] p = STATUS -> "status"
      [] p = status_path -> "server_status"
      [] OTHER -> "unmatched"

\* BaseServer.status: json_ok(self.state).
server_status(r) == OkOut(Val("json_ok", r, 0, 0, "none"))

handle_not_found(r) == RaiseOut(Exc("HTTPNotFound", TRUE))

internal_error(e, r) == Val("internal_error", r, 0, 0, e.cls)
handle_error(e, r) == OkOut(internal_error(e, r))

\* middleware, lines 77-82: what `response` is bound to, or what is raised.
middleware_try(hOut, r) ==
    IF ~hOut.raised THEN hOut
    ELSE IF hOut.exc.cls = "HTTPNotFound" THEN handle_not_found(r)
    ELSE handle_error(hOut.exc, r)

\* middleware, lines 87-91: the path's 'lat' after a request that took `new`.
fold_latency(rts, p, new) ==
    [rts EXCEPT ![p].lat = running_avg(rts[p].lat, new, rts[p].reqs)]

\* A request's answer as the client sees it.
Response(v, pretty) == [kind |-> "response", val |-> v, exc |-> "none",
                        pretty |-> pretty]
Raised(e) == [kind |-> "raised", val |-> Nil, exc |-> e.cls, pretty |-> FALSE]
NoResponse == [kind |-> "none", val |-> Nil, exc |-> "none", pretty |-> FALSE]

VARIABLES
    pcParent,   \* the creator: created, wait, started, join, closed
    lastCall,   \* the creator's latest start()/close() on a server that was
                \* not in the state for it: where the creator was, and the
                \* exception the call raised
    pcServer,   \* the server process: init, run, bound, serving, failed, terminated
    is_ready,   \* the Event
    listening,  \* the TCP site is started
    routes,     \* handler.routes
    req,        \* per request: st, path, route, pc, prior (the requests that
                \* were over when it arrived)
    env,        \* per request: the locals of its route
    calls,      \* per request: the component calls its route made
    wraps,      \* per request: the decorator invocations that are over
    resp,       \* per request: the answer
    report,     \* per request: what a status handler read for its answer
    plucked,    \* per request: the Qid a train request carries (0: one that
                \* no search was given)
    issued,     \* per path: requests the middleware received
    completed,  \* per path: requests whose latency was folded in
    sumLat,     \* per path: the sum of those latencies
    faults      \* calls that raised so far

vars == <<pcParent, lastCall, pcServer, is_ready, listening, routes, req, env,
          calls, wraps, resp, report, plucked, issued, completed, sumLat,
          faults>>

lifecycle == <<pcParent, lastCall, pcServer, is_ready, listening>>
traffic == <<routes, req, env, calls, wraps, resp, report, plucked, issued,
             completed, sumLat, faults>>

\* ------------------------------------------------------------- status
\* What a status answer is built from.  BaseServer.state holds the listener's
\* configuration and the readiness flag; the chain_state calls of the status
\* route add the components' sections to it: the RouteState counters the
\* status handler reads and the Metrics Store's count of the events of the
\* (Proxy, status) operation.
Report(counters, events, ready) ==
    [reqs |-> counters, laps |-> events, is_ready |-> ready]
NoReport == Report([p \in Paths |-> 0], 0, FALSE)
state == Report([p \in Paths |-> 0], 0, is_ready)
\* The lap events of the status route recorded so far.
StatusLaps ==
    Cardinality({r \in Reqs : \E i \in 1..Len(wraps[r]) :
                    /\ wraps[r][i].f = Fn("none", "status")
                    /\ wraps[r][i].laps # <<>>})
chain_state(rts) ==
    Report([p \in Paths |-> rts[p].reqs], StatusLaps, is_ready)
\* What the handler of a request reads when it is dispatched.
Read(route, rts) ==
    CASE route = "status" -> chain_state(rts)
      [] route = "server_status" -> state
      [] OTHER -> NoReport

\* ------------------------------------------------------------- persistence
\* The Qid db.save gives the (Query, Choices) of search request q is q.  The
\* Qids the db holds are those of the save calls that returned; db.get raises
\* for any other.
Saved ==
    {q \in Reqs : \E i \in 1..Len(wraps[q]) :
        wraps[q][i].f = Fn("db", "save") /\ ~wraps[q][i].fOut.raised}
UnknownQid == {Exc("UnknownQid", FALSE), Exc("UnknownQid", TRUE)}
\* The Qids clients were given: those of the answered searches whose
\* Response is pack's.
Seen ==
    {q \in Reqs : /\ req[q].st = "done" /\ req[q].route = "search"
                  /\ resp[q].kind = "response" /\ resp[q].val.kind = "pack"}

NoCall == [op |-> "none", exc |-> "none", at |-> "none"]
Idle == [st |-> "idle", path |-> "none", route |-> "none", pc |-> 0,
         prior |-> {}]

Init ==
    /\ pcParent = "created"
    /\ lastCall = NoCall
    /\ pcServer = "init"
    /\ is_ready = FALSE
    /\ listening = FALSE
    /\ routes = InitRoutes
    /\ req = [r \in Reqs |-> Idle]
    /\ env = [r \in Reqs |-> NewEnv(r)]
    /\ calls = [r \in Reqs |-> <<>>]
    /\ wraps = [r \in Reqs |-> <<>>]
    /\ resp = [r \in Reqs |-> NoResponse]
    /\ report = [r \in Reqs |-> NoReport]
    /\ plucked = [r \in Reqs |-> 0]
    /\ issued = [p \in Paths |-> 0]
    /\ completed = [p \in Paths |-> 0]
    /\ sumLat = [p \in Paths |-> 0]
    /\ faults = 0

\* ------------------------------------------------------------- lifecycle
\* Proxy.start, lines 159-161: the process is started, then the creator
\* waits for the Event.
Start ==
    /\ pcParent = "created"
    /\ pcParent' = "wait"
    /\ pcServer' = "run"
    /\ UNCHANGED <<lastCall, is_ready, listening>>
    /\ UNCHANGED traffic

\* BaseServer.run, lines 105-111: the loop runs create_app to completion;
\* site.start() binds the listener or raises, and then run() ends with it.
CreateApp ==
    /\ pcServer = "run"
    /\ \/ listening' = TRUE /\ pcServer' = "bound"
       \/ listening' = FALSE /\ pcServer' = "failed"
    /\ UNCHANGED <<pcParent, lastCall, is_ready>>
    /\ UNCHANGED traffic

\* Mutant of SetReady: the Event is also set before create_app has run.
SetReady_unbound ==
    /\ pcServer \in {"run", "bound"}
    /\ is_ready' = TRUE
    /\ pcServer' = IF pcServer = "bound" THEN "serving" ELSE pcServer
    /\ UNCHANGED <<pcParent, lastCall, listening>>
    /\ UNCHANGED traffic

\* BaseServer.run, lines 112-115: is_ready.set(), then loop.run_forever().
SetReady ==
    /\ pcServer = "bound"
    /\ is_ready' = TRUE
    /\ pcServer' = "serving"
    /\ UNCHANGED <<pcParent, lastCall, listening>>
    /\ UNCHANGED traffic

\* Mutant of WaitReturns: start() returns without waiting for the Event.
WaitReturns_nowait ==
    /\ pcParent = "wait"
    /\ pcParent' = "started"
    /\ UNCHANGED <<lastCall, pcServer, is_ready, listening>>
    /\ UNCHANGED traffic

\* Proxy.start, line 161: is_ready.wait() returns once the Event is set.
WaitReturns ==
    /\ pcParent = "wait"
    /\ is_ready
    /\ pcParent' = "started"
    /\ UNCHANGED <<lastCall, pcServer, is_ready, listening>>
    /\ UNCHANGED traffic

\* Proxy.close, line 164: the server process is sent the termination signal.
Close ==
    /\ pcParent = "started"
    /\ pcParent' = "join"
    /\ UNCHANGED <<lastCall, pcServer, is_ready, listening>>
    /\ UNCHANGED traffic

\* Mutant of Terminated: the process exits only once no request is in flight.
Terminated_drains ==
    /\ pcParent = "join"
    /\ pcServer = "serving"
    /\ \A r \in Reqs : req[r].st # "await"
    /\ pcServer' = "terminated"
    /\ listening' = FALSE
    /\ UNCHANGED <<pcParent, lastCall, is_ready>>
    /\ UNCHANGED traffic

\* The signalled process dies: its listener closes and the requests it was
\* serving are never answered.
Terminated ==
    /\ pcParent = "join"
    /\ pcServer = "serving"
    /\ pcServer' = "terminated"
    /\ listening' = FALSE
    /\ req' = [r \in Reqs |->
                  IF req[r].st = "await" THEN [req[r] EXCEPT !.st = "lost"]
                  ELSE req[r]]
    /\ UNCHANGED <<pcParent, lastCall, is_ready>>
    /\ UNCHANGED <<routes, env, calls, wraps, resp, report, plucked, issued,
                   completed, sumLat, faults>>

\* Proxy.close, line 165: join() returns once the process has exited.
Join ==
    /\ pcParent = "join"
    /\ pcServer = "terminated"
    /\ pcParent' = "closed"
    /\ UNCHANGED <<lastCall, pcServer, is_ready, listening>>
    /\ UNCHANGED traffic

\* ------------------------------------------------------------- requests
\* One invocation of a decorator: the callable f it wraps (stmt is its
\* statement in the route body, 0 for the route itself), what f and db.lap
\* came to, and what the decorator did (see decorator).
Wrap(f, k, fo, lo, dec) ==
    [f |-> f, stmt |-> k, fOut |-> fo, lapOut |-> lo, out |-> dec.out,
     laps |-> dec.laps, caught |-> dec.caught]

\* The requests that were over when request r arrived.
Prior(r) == IF req[r].st = "idle" THEN {q \in Reqs : req[q].st = "done"}
            ELSE req[r].prior

\* What calling the handler of a path comes to before its first suspension:
\* a route callback of the Proxy starts its body, the server's status method
\* returns, and the handler of an unmatched path raises HTTPNotFound.
Begin(route, r, failAt, fe) ==
    IF route \in ProxyRoutes
    THEN Run(route, 1, r, NewEnv(r), <<>>, Exc("TypeError", TRUE), failAt, fe)
    ELSE [kind |-> "return",
          out |-> IF route = "server_status" THEN server_status(r)
                  ELSE RaiseOut(Exc("HTTPNotFound", TRUE)),
          pc |-> 0, env |-> NewEnv(r), calls |-> <<>>]

\* The request stays in flight: its route awaits the tracked call run.pc.
\* ws are the decorator invocations that ended in this stretch.
Suspend(r, p, route, rts, run, ws, nf) ==
    /\ routes' = rts
    /\ req' = [req EXCEPT ![r] = [st |-> "await", path |-> p, route |-> route,
                                  pc |-> run.pc, prior |-> Prior(r)]]
    /\ env' = [env EXCEPT ![r] = run.env]
    /\ calls' = [calls EXCEPT ![r] = run.calls]
    /\ wraps' = [wraps EXCEPT ![r] = @ \o ws]
    /\ faults' = nf
    /\ UNCHANGED <<resp, completed, sumLat>>

\* The handler is over (run.out): a route callback's result goes through the
\* decorator that wraps the route, then through the rest of the middleware
\* (lines 77-95), all in one stretch.  pretty says whether the request's
\* query holds 'pretty' (line 84).
Finish(r, p, route, rts, run, ws, nf) ==
    \E olo \in (IF route \in ProxyRoutes /\ ~run.out.raised /\ nf < MaxFaults
                THEN LapOutcomes ELSE {OkOut(Nil)}) :
    \E d \in Elapsed, lat \in Latencies, pretty \in BOOLEAN :
        LET f == Fn("none", route)
            all == IF route \in ProxyRoutes
                   THEN Append(ws, Wrap(f, 0, run.out, olo,
                                        decorator(f, r, run.out, olo, d)))
                   ELSE ws
            hOut == IF route \in ProxyRoutes THEN all[Len(all)].out
                    ELSE run.out
            mw == middleware_try(hOut, r)
        IN  /\ routes' = IF mw.raised THEN rts
                         ELSE fold_latency(rts, p, lat * Scale)
            /\ resp' = [resp EXCEPT ![r] = IF mw.raised THEN Raised(mw.exc)
                                           ELSE Response(mw.ret, pretty)]
            /\ req' = [req EXCEPT ![r] = [st |-> "done", path |-> p,
                                          route |-> route, pc |-> run.pc,
                                          prior |-> Prior(r)]]
            /\ env' = [env EXCEPT ![r] = run.env]
            /\ calls' = [calls EXCEPT ![r] = run.calls]
            /\ wraps' = [wraps EXCEPT ![r] = @ \o all]
            /\ completed' = IF mw.raised THEN completed
                            ELSE [completed EXCEPT ![p] = @ + 1]
            /\ sumLat' = IF mw.raised THEN sumLat
                         ELSE [sumLat EXCEPT ![p] = @ + lat]
            /\ faults' = nf + (IF olo.raised THEN 1 ELSE 0)

\* BaseServer.middleware from its first line to the first suspension of the
\* handler, or to its end when the handler never suspends.
Arrive(r) ==
    /\ pcServer = "serving"
    /\ req[r].st = "idle"
    /\ \A q \in Reqs : q < r => req[q].st # "idle"
    /\ \E p \in Paths :
        LET ent == middleware_enter(routes, p)
            route == Match(p)
        IN  /\ issued' = [issued EXCEPT ![p] = @ + 1]
            /\ report' = [report EXCEPT ![r] =
                              IF ent.raised THEN @
                              ELSE Read(route, ent.routes)]
            /\ \E qid \in (IF route = "train" THEN {0} \cup Seen ELSE {0}) :
                   plucked' = [plucked EXCEPT ![r] = qid]
            /\ IF ent.raised
               THEN /\ routes' = ent.routes
                    /\ req' = [req EXCEPT ![r] =
                                  [st |-> "done", path |-> p, route |-> route,
                                   pc |-> 0, prior |-> Prior(r)]]
                    /\ resp' = [resp EXCEPT ![r] = Raised(ent.exc)]
                    /\ UNCHANGED <<env, calls, wraps, completed, sumLat,
                                   faults>>
               ELSE \E failAt \in (IF route = "status" /\ faults < MaxFaults
                                   THEN 0..Len(status) ELSE {0}) :
                    \E fe \in (IF failAt = 0 THEN {NoExc} ELSE ComponentExcs) :
                        LET run == Begin(route, r, failAt, fe)
                            nf == faults + (IF failAt = 0 THEN 0 ELSE 1)
                        IN  IF run.kind = "await"
                            THEN Suspend(r, p, route, ent.routes, run,
                                         <<>>, nf)
                            ELSE Finish(r, p, route, ent.routes, run,
                                        <<>>, nf)
    /\ UNCHANGED lifecycle

\* The tracked call a request awaits is over: the decorator's lines 72-78 for
\* it, then the route body up to its next suspension or to its end.
Resume(r) ==
    /\ pcServer = "serving"
    /\ req[r].st = "await"
    /\ LET q == req[r]
           st == Body(q.route)[q.pc]
       IN  \E fo \in (IF st.f.name = "get" /\ plucked[r] \notin Saved
                      THEN {RaiseOut(e) : e \in UnknownQid}
                      ELSE {OkOut(Result(st.f.name, r))} \cup
                           (IF faults < MaxFaults
                            THEN {RaiseOut(e) : e \in ComponentExcs}
                            ELSE {})) :
           \E lo \in (IF ~fo.raised /\ faults < MaxFaults
                      THEN LapOutcomes ELSE {OkOut(Nil)}) :
           \E d \in Elapsed, te \in TypeErrors :
               LET dec == decorator(st.f, r, fo, lo, d)
                   ws == <<Wrap(st.f, q.pc, fo, lo, dec)>>
                   nf == faults + (IF (fo.raised /\ fo.exc \notin UnknownQid)
                                      \/ lo.raised THEN 1 ELSE 0)
                   ev == [env[r] EXCEPT ![st.dst] = dec.out.ret]
                   run == IF dec.out.raised
                          THEN [kind |-> "return",
                                out |-> RaiseOut(dec.out.exc), pc |-> q.pc,
                                env |-> env[r], calls |-> calls[r]]
                          ELSE Run(q.route, q.pc + 1, r, ev, calls[r], te,
                                   0, NoExc)
                   unpackFailed == ~dec.out.raised /\ run.kind = "return"
                                   /\ run.out.raised
               IN  /\ unpackFailed \/ te = Exc("TypeError", TRUE)
                   /\ IF run.kind = "await"
                      THEN Suspend(r, q.path, q.route, routes, run, ws, nf)
                      ELSE Finish(r, q.path, q.route, routes, run, ws, nf)
    /\ UNCHANGED <<issued, report, plucked>>
    /\ UNCHANGED lifecycle

Next ==
    \/ Start
    \/ CreateApp
    \/ SetReady
    \/ WaitReturns
    \/ Close
    \/ Terminated
    \/ Join
    \/ \E r \in Reqs : Arrive(r)
    \/ \E r \in Reqs : Resume(r)

Spec == Init /\ [][Next]_vars

\* ------------------------------------------------------------- properties
InFlight(p) == \E r \in Reqs : req[r].st = "await" /\ req[r].path = p
Over(r) == req[r].st = "done"
Failed(w) == w.fOut.raised \/ w.lapOut.raised
\* No decorator invocation of request r met an exception.
CleanRun(r) == \A i \in 1..Len(wraps[r]) : ~Failed(wraps[r][i])

\* The (owner, operation) of the lap calls of request r, in order.
RECURSIVE EventsOf(_)
EventsOf(ws) ==
    IF ws = <<>> THEN <<>>
    ELSE (IF Head(ws).laps = <<>> THEN <<>>
          ELSE << <<Head(ws).laps[1][2], Head(ws).laps[1][3]>> >>)
         \o EventsOf(Tail(ws))
Events(r) == EventsOf(wraps[r])

IsTracked(c) == c.tracked
OwnerOf(f) == IF f.self = "none" THEN "Proxy" ELSE ClassName(f.self)
Bound == listening \/ pcServer = "terminated"

\* C1: start() has returned only if the readiness Event is set; the Event is
\* set only once the listener has been bound; a request is received only by
\* a bound server; and from the return of start() until close() the listener
\* is up.
C1_StartReturnsAfterBind ==
    /\ pcParent \in {"started", "join", "closed"} => is_ready
    /\ is_ready => Bound
    /\ pcParent = "started" => listening
    /\ \A r \in Reqs : req[r].st # "idle" => Bound

\* start() has returned and a request issued to the server was answered.
C1_Witness ==
    /\ pcParent = "started"
    /\ \E r \in Reqs : Over(r) /\ resp[r].kind = "response"

\* C2: when the server process has failed to bind, the creator blocked in
\* start() can still leave the wait (by a bounded wait or by noticing the
\* death of the process).
C2_StartLeavesWait ==
    (pcParent = "wait" /\ pcServer = "failed") => ENABLED <<Next>>_pcParent

\* C3: once the requests issued to a path are all over, the path's request
\* counter equals the number of requests issued to it.
C3_CounterCountsEveryRequest ==
    \A p \in Paths :
        (issued[p] > 0 /\ ~InFlight(p)) =>
            /\ routes[p].kind = "RouteState"
            /\ routes[p].reqs = issued[p]

\* The same on the paths that have a RouteState from the start.
RegisteredCounterExact ==
    \A p \in RegisteredPaths :
        routes[p].kind = "RouteState" /\ routes[p].reqs = issued[p]

\* C4: once N requests to a path have completed and none is in flight, the
\* path's average latency is the mean of their latencies (stated on the paths
\* that have a RouteState; latencies are in units of 1/Scale).
C4_AverageIsMean ==
    \A p \in Paths :
        (routes[p].kind = "RouteState" /\ completed[p] > 0 /\ ~InFlight(p)) =>
            routes[p].lat * completed[p] = sumLat[p] * Scale

\* Where the result of the decorator invocation w of request r went: the
\* variable its statement assigns, or the middleware for the route's own.
ResultDelivered(r, w, v) ==
    IF w.stmt = 0
    THEN Over(r) /\ resp[r].kind = "response" /\ resp[r].val = v
    ELSE LET dst == Body(req[r].route)[w.stmt].dst IN
         dst # "none" => env[r][dst] = v

\* C5: when the wrapped operation raises, the exception is logged and handed
\* to codex.catch, no lap is recorded, and the decorator returns the fallback
\* Response of catch to its caller; an exception leaves the decorator only
\* when catch declines, and then it is that exception.
C5_RaiseBecomesFallback ==
    \A r \in Reqs : \A i \in 1..Len(wraps[r]) :
        LET w == wraps[r][i] IN
        w.fOut.raised =>
            /\ w.caught = <<w.fOut.exc>>
            /\ w.laps = <<>>
            /\ IF w.fOut.exc.declined
               THEN w.out = RaiseOut(w.fOut.exc)
               ELSE /\ w.out = OkOut(FallbackOf(w.fOut.exc, r))
                    /\ ResultDelivered(r, w, FallbackOf(w.fOut.exc, r))

\* A tracked step of a route raised, catch answered it, and the route went
\* on to its next call with the fallback.
C5_Witness ==
    \E r \in Reqs : \E i \in 1..Len(wraps[r]) :
        /\ wraps[r][i].fOut.raised
        /\ wraps[r][i].stmt > 0
        /\ ~wraps[r][i].out.raised
        /\ Len(calls[r]) > wraps[r][i].stmt

\* C6 as stated: whenever the wrapped operation returns, exactly one event
\* is recorded and the operation's result is the decorator's result.
C6_SuccessRecordsAndReturns ==
    \A r \in Reqs : \A i \in 1..Len(wraps[r]) :
        LET w == wraps[r][i] IN
        ~w.fOut.raised =>
            /\ Len(w.laps) = 1
            /\ w.out = OkOut(w.fOut.ret)

\* C6 amended: when the wrapped operation returns and db.lap returns,
\* exactly one event (elapsed ms, owner, operation) is recorded and the
\* decorator returns the operation's result unchanged; when db.lap raises,
\* no event is recorded and the decorator answers with catch instead.
C6_SuccessRecordsUnlessLapRaises ==
    \A r \in Reqs : \A i \in 1..Len(wraps[r]) :
        LET w == wraps[r][i] IN
        ~w.fOut.raised =>
            IF ~w.lapOut.raised
            THEN /\ Len(w.laps) = 1
                 /\ w.laps[1][1] \in {1000 * d : d \in Elapsed}
                 /\ w.laps[1][2] = OwnerOf(w.f)
                 /\ w.laps[1][3] = w.f.name
                 /\ w.caught = <<>>
                 /\ w.out = OkOut(w.fOut.ret)
                 /\ ResultDelivered(r, w, w.fOut.ret)
            ELSE /\ w.laps = <<>>
                 /\ w.caught = <<w.lapOut.exc>>
                 /\ w.out = catch(w.lapOut.exc, r)

\* An awaited step and a route that never suspends (status) both returned
\* and were recorded, and some operation returned while its lap raised.
C6_Witness ==
    /\ \E r \in Reqs : \E i \in 1..Len(wraps[r]) :
          ~Failed(wraps[r][i]) /\ wraps[r][i].stmt > 0
    /\ \E r \in Reqs : \E i \in 1..Len(wraps[r]) :
          ~Failed(wraps[r][i]) /\ wraps[r][i].f.name = "status"
    /\ \E r \in Reqs : \E i \in 1..Len(wraps[r]) :
          ~wraps[r][i].fOut.raised /\ wraps[r][i].lapOut.raised

Tok(name, r) == Val(name, r, 0, 0, "none")
Item(name, r, i) == Val(name, r, i, 0, "none")
Call(cls, op, args) == [cls |-> cls, op |-> op, args |-> args, tracked |-> TRUE]
SearchCalls(r) ==
    << Call("Codex", "topk", <<RequestOf(r)>>),
       Call("Codex", "magnify", <<RequestOf(r), Tok("topk", r)>>),
       Call("Server", "ask", <<Tok("magnify", r)>>),
       Call("Codex", "parse", <<Tok("magnify", r), Tok("ask", r)>>),
       Call("Model", "rank", <<Item("parse", r, 1), Item("parse", r, 2)>>),
       Call("Db", "save", <<Item("parse", r, 1), Item("parse", r, 2)>>),
       Call("Codex", "pack",
            <<Tok("topk", r), Tok("ask", r), Item("parse", r, 1),
              Item("parse", r, 2), Tok("rank", r), Item("save", r, 1),
              Item("save", r, 2)>>) >>

\* C8: while a search meets no exception, the calls it has made are the
\* first of topk, magnify, ask, parse, rank, save, pack, in that order and
\* once each, every one with the results of the earlier ones as its
\* arguments; when it is over all seven were made and the answer is what
\* pack returned.
C8_SearchPipelineOrder ==
    \A r \in Reqs :
        (req[r].route = "search" /\ CleanRun(r)) =>
            /\ Len(calls[r]) <= 7
            /\ calls[r] = SubSeq(SearchCalls(r), 1, Len(calls[r]))
            /\ req[r].st = "await" =>
                   /\ Len(calls[r]) = req[r].pc
                   /\ Len(wraps[r]) = req[r].pc - 1
            /\ Over(r) =>
                   /\ calls[r] = SearchCalls(r)
                   /\ resp[r].kind = "response"
                   /\ resp[r].val = Val("pack", r, 0, 0, "none")

\* A search ran through all seven steps without exception.
C8_Witness ==
    \E r \in Reqs :
        /\ Over(r) /\ req[r].route = "search" /\ CleanRun(r)
        /\ Len(calls[r]) = 7

\* db.get raised in request r.
GetFailed(r) ==
    \E i \in 1..Len(wraps[r]) :
        wraps[r][i].f.name = "get" /\ wraps[r][i].fOut.raised
ErrorResponse(a) ==
    /\ a.kind = "response"
    /\ a.val.kind \in {"fallback", "internal_error"}
    /\ a.val.err # "none"

C10_UnmatchedIsForwarded ==
    \A r \in Reqs :
        (Over(r) /\ req[r].path \notin RegisteredPaths) =>
            /\ resp[r].kind = "response"
            /\ resp[r].val = Val("forward", r, 0, 0, "none")
            /\ calls[r] = <<Call("Server", "forward", <<RequestOf(r)>>)>>

\* The requests to paths that had a RouteState were all answered.
RegisteredAlwaysAnswered ==
    \A r \in Reqs :
        (Over(r) /\ req[r].path \in RegisteredPaths) =>
            resp[r].kind = "response"

\* C11: every request the middleware has finished with was answered with a
\* Response: no exception left the middleware.
C11_MiddlewareAlwaysResponds ==
    \A r \in Reqs : Over(r) => resp[r].kind = "response"

\* ------------------------------------------------------------- lifecycle calls
\* start() and close() called on a server that is not in the state for them.
\* Mutant of StartAgain: a second start() runs the server again.
StartAgain_restarts ==
    /\ pcParent \in {"started", "closed"}
    /\ pcParent' = "wait"
    /\ pcServer' = "run"
    /\ is_ready' = FALSE
    /\ listening' = FALSE
    /\ lastCall' = [op |-> "start", exc |-> "none", at |-> pcParent]
    /\ UNCHANGED traffic

\* Proxy.start, line 160, on a server that was started before: Process.start
\* refuses to start a process twice (AssertionError) and the wait of line 161
\* is not reached.
StartAgain ==
    /\ pcParent \in {"started", "closed"}
    /\ lastCall' = [op |-> "start", exc |-> "AssertionError", at |-> pcParent]
    /\ UNCHANGED <<pcParent, pcServer, is_ready, listening>>
    /\ UNCHANGED traffic

\* Proxy.close, line 164, on a server that was never started: there is no
\* process to terminate (AttributeError) and the join of line 165 is not
\* reached.
CloseUnstarted ==
    /\ pcParent = "created"
    /\ lastCall' = [op |-> "close", exc |-> "AttributeError", at |-> pcParent]
    /\ UNCHANGED <<pcParent, pcServer, is_ready, listening>>
    /\ UNCHANGED traffic

\* Proxy.close, lines 164-165, on a server that is closed: terminating a
\* process that has exited does nothing and the join returns at once.
CloseAgain ==
    /\ pcParent = "closed"
    /\ lastCall' = [op |-> "close", exc |-> "none", at |-> pcParent]
    /\ UNCHANGED <<pcParent, pcServer, is_ready, listening>>
    /\ UNCHANGED traffic

\* The lifecycle under every sequence of start() and close() calls, with the
\* first request as the traffic.
LifecycleNext ==
    \/ Start
    \/ CreateApp
    \/ SetReady
    \/ WaitReturns
    \/ Close
    \/ Terminated
    \/ Join
    \/ StartAgain
    \/ CloseUnstarted
    \/ CloseAgain
    \/ Arrive(1)
    \/ Resume(1)

LifecycleSpec == Init /\ [][LifecycleNext]_vars

\* The server's lifecycle state, as a number: 1 CREATED, 2 STARTING (start()
\* was called and the Event is not set; a server whose bind failed stays
\* here), 3 READY (the Event is set), 4 STOPPING (close() was called and the
\* process has not yet exited), 5 STOPPED.
LifecycleState ==
    IF pcServer = "terminated" THEN 5
    ELSE IF pcParent = "join" THEN 4
    ELSE IF is_ready THEN 3
    ELSE IF pcParent = "created" THEN 1
    ELSE 2

\* C12: under every sequence of start() and close() calls a step leaves the
\* lifecycle state where it is or moves it to the next one of CREATED,
\* STARTING, READY, STOPPING, STOPPED; STOPPED is never left, and no step of
\* a request is taken in it.
C12_LifecycleMovesForward ==
    [][/\ LifecycleState' \in {LifecycleState, LifecycleState + 1}
       /\ LifecycleState = 5 => LifecycleState' = 5 /\ UNCHANGED traffic]_vars

\* start() was called on a stopped server, after a request had been served.
C12_Witness ==
    /\ LifecycleState = 5
    /\ lastCall = [op |-> "start", exc |-> "AssertionError", at |-> "closed"]
    /\ \E r \in Reqs : Over(r)

\* The operating system ends a process that was sent the termination signal,
\* and a join on a process that has exited returns.
LifecycleFair == LifecycleSpec /\ WF_vars(Terminated) /\ WF_vars(Join)

\* C13: close() has returned only if the server process has exited; once
\* close() has signalled the process, the process can exit whatever requests
\* are in flight; and a close() that was called returns.
C13_CloseTerminatesAndReturns ==
    /\ [](pcParent = "closed" => pcServer = "terminated")
    /\ []((pcParent = "join" /\ pcServer = "serving") => ENABLED Terminated)
    /\ (pcParent = "join" ~> pcParent = "closed")

\* close() has returned and the request that was in flight when it was
\* called got no answer.
C13_Witness ==
    /\ pcParent = "closed"
    /\ \E r \in Reqs : req[r].st = "lost" /\ resp[r] = NoResponse

\* C14: the Event is unset until the listener is bound; the only step that
\* changes it is run's is_ready.set() after the bind, which sets it; once set
\* it stays set, so it is set once; and the creator's wait in start() blocks
\* exactly while it is unset.
C14_ReadySetOnceAfterBind ==
    /\ [](is_ready => Bound)
    /\ [][/\ is_ready => is_ready'
          /\ is_ready' # is_ready =>
                pcServer = "bound" /\ listening /\ pcServer' = "serving"]_vars
    /\ [](pcParent = "wait" => (ENABLED WaitReturns <=> is_ready))

\* The Event was set, start() returned on it, and it is still set after the
\* server was closed and start() was called again.
C14_Witness ==
    /\ is_ready
    /\ pcServer = "terminated"
    /\ lastCall.op = "start" /\ lastCall.at = "closed"

\* Requests r and q were both answered by the same status handler with its
\* own result, r before q arrived, and no search or train request arrived
\* between them.
StatusTwice(r, q) ==
    /\ Over(r) /\ Over(q) /\ r \in req[q].prior
    /\ req[r].route = req[q].route
    /\ resp[r].kind = "response" /\ resp[q].kind = "response"
    /\ resp[r].val.kind = resp[q].val.kind
    /\ resp[r].val.kind \in {"pulse", "json_ok"}
    /\ \A x \in Reqs : (r < x /\ x < q) => req[x].route \notin {"search", "train"}

\* The same for the server's own status method, which reports no counter.
ServerStatusIdentical ==
    \A r, q \in Reqs :
        (StatusTwice(r, q) /\ req[r].route = "server_status") =>
            report[r] = report[q]

\* C15: two status calls with no search or train request between them are
\* answered from the same counters and the same recorded events.
C15_StatusIsIdempotent ==
    \A r, q \in Reqs :
        StatusTwice(r, q) =>
            /\ report[r].reqs = report[q].reqs
            /\ report[r].laps = report[q].laps

\* Search request q made calls number i and j, i before j: db.save with the
\* pair parse returned, and codex.pack with the pair that save returned.
SavedThenPacked(q, i, j) ==
    /\ i < j
    /\ calls[q][i] = Call("Db", "save", <<Item("parse", q, 1), Item("parse", q, 2)>>)
    /\ calls[q][j].op = "pack"
    /\ Len(calls[q][j].args) = 7
    /\ calls[q][j].args[6] = Item("save", q, 1)
    /\ calls[q][j].args[7] = Item("save", q, 2)

OwnCount(r) ==
    Cardinality({q \in Reqs : q <= r /\ req[q].st # "idle"
                              /\ req[q].path = req[r].path})

\* Request r is answered in this step.
Answered(r) ==
    req[r].st # "done" /\ req'[r].st = "done" /\ resp'[r].kind = "response"

\* The latency folded in this step for path p, in units of 1/Scale.
Folded(p) == (sumLat'[p] - sumLat[p]) * Scale

\* The fold of lines 87-91 takes n from the counter as it is when the
\* request is answered.
FoldUsesCurrentCounter ==
    [][\A r \in Reqs : Answered(r) =>
          routes'[req'[r].path].lat =
              running_avg(routes[req'[r].path].lat, Folded(req'[r].path),
                          routes'[req'[r].path].reqs)]_vars

\* C17: when a request is answered, its latency is folded into its path's
\* average as (avg*n + new)/n with n the counter's value right after the
\* request's own increment, whatever requests arrived after it.
C17_FoldUsesOwnCount ==
    [][\A r \in Reqs : Answered(r) =>
          routes'[req'[r].path].lat =
              running_avg(routes[req'[r].path].lat, Folded(req'[r].path),
                          OwnCount(r)')]_vars

\* C18: once a request to a path has been received the path has a
\* RouteState that counts it, and the request was dispatched: it did not end
\* in the middleware's own TypeError.
C18_FirstRequestCreatesRouteState ==
    \A r \in Reqs :
        req[r].st # "idle" =>
            /\ routes[req[r].path].kind = "RouteState"
            /\ routes[req[r].path].reqs >= 1
            /\ resp[r] # Raised(Exc("TypeError", TRUE))

\* Step k of search request r raised and codex.catch answered with the
\* fallback fb.
StepFellBack(r, k, fb) ==
    \E i \in 1..Len(wraps[r]) :
        /\ wraps[r][i].stmt = k
        /\ wraps[r][i].fOut.raised
        /\ ~wraps[r][i].fOut.exc.declined
        /\ fb = FallbackOf(wraps[r][i].fOut.exc, r)

\* Call number k of request r was made, and it is a call of op.
Invoked(r, k, op) == Len(calls[r]) >= k /\ calls[r][k].op = op

\* C19: when topk, magnify, ask or rank of a search raises and catch answers,
\* the fallback is bound to the step's variable and the next step is invoked
\* with it: magnify(_1, fallback) after topk, ask(fallback) after magnify,
\* parse(_3, fallback) after ask, save after rank and pack with the fallback
\* as its Ranks; after a failed topk the backend is still asked.
C19_FailedStepFallsThrough ==
    \A r \in Reqs : \A fb \in {FallbackOf(e, r) : e \in ComponentExcs} :
        req[r].route = "search" =>
            /\ StepFellBack(r, 1, fb) =>
                  /\ env[r]["_2"] = fb
                  /\ Invoked(r, 2, "magnify")
                  /\ calls[r][2].args = <<RequestOf(r), fb>>
                  /\ (\E i \in 1..Len(wraps[r]) :
                         wraps[r][i].stmt = 2 /\ ~wraps[r][i].out.raised)
                        => Invoked(r, 3, "ask")
            /\ StepFellBack(r, 2, fb) =>
                  /\ env[r]["_3"] = fb
                  /\ Invoked(r, 3, "ask")
                  /\ calls[r][3].args = <<fb>>
            /\ StepFellBack(r, 3, fb) =>
                  /\ env[r]["_4"] = fb
                  /\ Invoked(r, 4, "parse")
                  /\ calls[r][4].args = <<env[r]["_3"], fb>>
            /\ StepFellBack(r, 5, fb) =>
                  /\ env[r]["_6"] = fb
                  /\ Invoked(r, 6, "save")
                  /\ Invoked(r, 7, "pack") => calls[r][7].args[5] = fb

\* The backend call of a search failed, parse was invoked with the fallback
\* and the search went on to pack.
C19_Witness ==
    \E r \in Reqs : \E e \in ComponentExcs :
        /\ req[r].route = "search"
        /\ StepFellBack(r, 3, FallbackOf(e, r))
        /\ Invoked(r, 4, "parse")
        /\ Invoked(r, 7, "pack")

\* C20: db.lap is inside the decorator's try.  When the operation returned
\* and lap raised, the exception went to codex.catch, the operation's result
\* was dropped (it is not what the decorator returned, unless it was itself
\* the fallback of the same failure) and the caller got catch's fallback (or
\* catch's re-raised exception); when the operation raised, lap was not
\* called and no event was recorded.
C20_LapInsideFailureBoundary ==
    \A r \in Reqs : \A i \in 1..Len(wraps[r]) :
        LET w == wraps[r][i] IN
        /\ (~w.fOut.raised /\ w.lapOut.raised) =>
              /\ w.laps = <<>>
              /\ w.caught = <<w.lapOut.exc>>
              /\ w.fOut.ret.kind # "fallback" => w.out.ret # w.fOut.ret
              /\ IF w.lapOut.exc.declined
                 THEN w.out = RaiseOut(w.lapOut.exc)
                 ELSE /\ w.out = OkOut(FallbackOf(w.lapOut.exc, r))
                      /\ ResultDelivered(r, w, FallbackOf(w.lapOut.exc, r))
        /\ w.fOut.raised => ~w.lapOut.raised /\ w.laps = <<>>

\* A step of a route returned, its lap raised, and the route went on to its
\* next call with the fallback in the place of the step's result.
C20_Witness ==
    \E r \in Reqs : \E i \in 1..Len(wraps[r]) :
        /\ wraps[r][i].stmt > 0
        /\ ~wraps[r][i].fOut.raised /\ wraps[r][i].lapOut.raised
        /\ wraps[r][i].out = OkOut(FallbackOf(wraps[r][i].lapOut.exc, r))
        /\ Len(calls[r]) > wraps[r][i].stmt

====
